---- MODULE Spec2Model ----
(***************************************************************************)
(* Stock portfolio performance analyzer: the metrics library               *)
(* (metrics_calculator.py), the valuation engine and the orchestrator      *)
(* (portfolio_analyzer.py), the provider wrapper (data_fetcher.py) and the *)
(* front end that loads a portfolio file (useful_functions.py, main.py).   *)
(*                                                                         *)
(* Numbers.  The program computes in IEEE doubles.  The model computes in  *)
(* exact rationals <<n, d>> (d > 0, lowest terms) extended with the three  *)
(* special doubles: NaN = <<0, 0>>, +inf = <<1, 0>>, -inf = <<-1, 0>>.     *)
(* Rounding is not modelled.  Prices and portfolio values are integers     *)
(* (an amount in the smallest currency unit).                              *)
(*                                                                         *)
(* A quantity that holds a square root (a standard deviation and what is   *)
(* derived from it) is carried unevaluated as a record                     *)
(*     [c |-> coefficient, r |-> radicand, q |-> radicand of the divisor]  *)
(* standing for c * sqrt(r) / sqrt(q).                                     *)
(*                                                                         *)
(* A pandas Series / DataFrame column indexed by dates is a function from  *)
(* a finite set of dates (integers, days) to values; the index is kept     *)
(* ascending by pandas, so position i is the i-th smallest date.           *)
(***************************************************************************)
EXTENDS Integers, Sequences, FiniteSets, TLC

VARIABLES
    portfolio,          \* PortfolioAnalyzer.portfolio: the holdings, in dict order
    holdings_data,      \* ticker -> price series (only tickers with data)
    current_prices,     \* ticker -> current price or NoneValue
    stock_info,         \* ticker -> the info dict (name, sector, industry, currency)
    portfolio_history,  \* [none |-> BOOLEAN, s |-> date -> value]
    benchmark_data,     \* [none |-> BOOLEAN, s |-> date -> close]
    metrics,            \* {} (the empty function) or the metrics dict
    cache,              \* DataFetcher.cache: <<ticker, start_date, end_date>> -> series
    pc,                 \* position in run_analysis (index of the step to run next)
    next_holding,       \* fetch_all_data: index of the holding to fetch next
    raised,             \* "none" or the exception that ended the run
    output,             \* the messages printed so far that matter to callers
    calls,              \* the steps of the run begun so far, in order
    divisions,          \* the dividing operations performed so far
    contrib,            \* date -> ticker -> value added by calculate_portfolio_value_history
    fetched,            \* ticker -> what fetch_stock_data returned for the holding
    holdings_performance, \* what calculate_each_holding_performance last returned
    prices,             \* metrics library under test: the input price series
    result,             \* unit under test: the last operation and what it returned
    csv                 \* the portfolio file handed to load_portfolio_from_csv

vars == <<portfolio, holdings_data, current_prices, stock_info, portfolio_history,
          benchmark_data, metrics, cache, pc, next_holding, raised, output, calls, divisions,
          contrib, fetched, holdings_performance, prices, result, csv>>

-----------------------------------------------------------------------------
(* Bounds of the model *)

\* The valuation engine is exercised on price series over the days 1..MaxDate.
MaxDate == 3

\* The metrics library is exercised on price series of 1..MaxLen points with
\* prices in 1..MaxPrice.
MaxLen == 4

MaxPrice == 4

Dates == 1..MaxDate

\* Closing prices the provider may report, the current prices it may report,
\* share counts and purchase prices of the holdings.
PriceValues == {1, 2}

CurrentPriceValues == {2}

ShareValues == {1, 2}

PurchasePriceValues == {1}

Tickers == <<"A", "B">>

-----------------------------------------------------------------------------
(* Doubles as extended rationals *)

Abs(x) == IF x < 0 THEN -x ELSE x

Sign(x) == IF x > 0 THEN 1 ELSE IF x < 0 THEN -1 ELSE 0

RECURSIVE Gcd(_, _)
Gcd(a, b) == IF b = 0 THEN a ELSE Gcd(b, a % b)

Norm(n, d) ==
    IF d = 0 THEN <<Sign(n), 0>>
    ELSE LET g == Gcd(Abs(n), Abs(d))
             s == Sign(d)
         IN  <<(s * n) \div g, (s * d) \div g>>

R(i) == <<i, 1>>

NaN == <<0, 0>>

IsNaN(a) == a[1] = 0 /\ a[2] = 0

IsInf(a) == a[1] # 0 /\ a[2] = 0

IsFinite(a) == a[2] # 0

Lcm(a, b) == (a \div Gcd(a, b)) * b

\* The sum is formed over the least common denominator.
RAdd(a, b) ==
    IF IsNaN(a) \/ IsNaN(b) THEN NaN
    ELSE IF IsInf(a) /\ IsInf(b) THEN (IF a[1] = b[1] THEN a ELSE NaN)
    ELSE IF IsInf(a) THEN a
    ELSE IF IsInf(b) THEN b
    ELSE LET l == Lcm(a[2], b[2])
         IN  Norm(a[1] * (l \div a[2]) + b[1] * (l \div b[2]), l)

RNeg(a) == <<-a[1], a[2]>>

RSub(a, b) == RAdd(a, RNeg(b))

RMul(a, b) ==
    IF IsNaN(a) \/ IsNaN(b) THEN NaN
    ELSE IF IsInf(a) \/ IsInf(b) THEN <<Sign(a[1]) * Sign(b[1]), 0>>
    ELSE Norm(a[1] * b[1], a[2] * b[2])

\* IEEE division: x/0 is +-inf, 0/0 and inf/inf are NaN, x/inf is 0.
RDiv(a, b) ==
    IF IsNaN(a) \/ IsNaN(b) THEN NaN
    ELSE IF IsInf(b) THEN (IF IsInf(a) THEN NaN ELSE R(0))
    ELSE IF IsInf(a) THEN <<a[1] * (IF b[1] < 0 THEN -1 ELSE 1), 0>>
    ELSE IF b[1] = 0 THEN <<Sign(a[1]), 0>>
    ELSE Norm(a[1] * b[2], a[2] * b[1])

\* a < b on doubles: false whenever NaN is involved.
RLt(a, b) ==
    IF IsNaN(a) \/ IsNaN(b) THEN FALSE
    ELSE IF IsInf(a) \/ IsInf(b)
         THEN (IF IsInf(a) THEN a[1] ELSE 0) < (IF IsInf(b) THEN b[1] ELSE 0)
    ELSE a[1] * b[2] < b[1] * a[2]

\* a == b on doubles: NaN equals nothing.
REq(a, b) == ~IsNaN(a) /\ ~IsNaN(b) /\ a = b

-----------------------------------------------------------------------------
(* Series *)

EmptySeries == <<>>

\* A series held as a table of its entries (each entry computed once).
Table(f) == f @@ EmptySeries

IsEmpty(s) == DOMAIN s = {}

\* The index in ascending order.
RECURSIVE SortedSeq(_)
SortedSeq(S) ==
    IF S = {} THEN <<>>
    ELSE LET m == CHOOSE x \in S : \A y \in S : x <= y
         IN  <<m>> \o SortedSeq(S \ {m})

Index(s) == SortedSeq(DOMAIN s)

\* The values in index order.
Values(s) ==
    LET idx == Index(s)
    IN  Table([k \in 1..Len(idx) |-> s[idx[k]]])

First(s) == s[Index(s)[1]]

Last(s) == s[Index(s)[Len(Index(s))]]

\* df['Close'] as doubles.
Close(df) == Table([d \in DOMAIN df |-> R(df[d])])

\* Series.dropna(): the entries whose value is not NaN.
dropna(s) == Table([d \in {x \in DOMAIN s : ~IsNaN(s[x])} |-> s[d]])

RECURSIVE SumSeq(_)
SumSeq(xs) == IF xs = <<>> THEN R(0) ELSE RAdd(xs[1], SumSeq(Tail(xs)))

\* Series.mean(): NaN on an empty series.
Mean(xs) == IF Len(xs) = 0 THEN NaN ELSE RDiv(SumSeq(xs), R(Len(xs)))

\* Series.var() with pandas' default ddof = 1: NaN on fewer than two entries.
Var(xs) ==
    IF Len(xs) < 2 THEN NaN
    ELSE LET m == Mean(xs)
             sq == Table([k \in 1..Len(xs) |-> RMul(RSub(xs[k], m), RSub(xs[k], m))])
         IN  RDiv(SumSeq(sq), R(Len(xs) - 1))

\* c * sqrt(r) / sqrt(q), NaN as soon as a part is NaN.
SurdNaN == [c |-> NaN, r |-> NaN, q |-> NaN]

SurdZero == [c |-> R(0), r |-> R(1), q |-> R(1)]

Surd(c, r, q) ==
    IF IsNaN(c) \/ IsNaN(r) \/ IsNaN(q) THEN SurdNaN ELSE [c |-> c, r |-> r, q |-> q]

SurdIsNaN(v) == IsNaN(v.c)

SurdIsZero(v) == ~SurdIsNaN(v) /\ (v.c = R(0) \/ v.r = R(0)) /\ IsFinite(v.q) /\ v.q # R(0)

\* Optional values: None and a present value.
NoneValue == <<>>

Some(x) == <<x>>

-----------------------------------------------------------------------------
(* MetricsCalculator (metrics_calculator.py) *)

risk_free_rate == <<3, 100>>

trading_days == 252

\* pct_change() with the first entry filled with 0 and kept.
calculate_returns_keep_first(p) ==
    LET idx == Index(p)
    IN  Table([d \in DOMAIN p |->
                   LET k == CHOOSE j \in 1..Len(idx) : idx[j] = d
                   IN  IF k = 1 THEN R(0)
                       ELSE RSub(RDiv(p[d], p[idx[k - 1]]), R(1))])

\* prices.pct_change().dropna(): the first entry has no return and is dropped.
calculate_returns(p) ==
    LET idx == Index(p)
        pct == Table([d \in DOMAIN p |->
                   LET k == CHOOSE j \in 1..Len(idx) : idx[j] = d
                   IN  IF k = 1 THEN NaN
                       ELSE RSub(RDiv(p[d], p[idx[k - 1]]), R(1))])
    IN  dropna(pct)

\* final_value - initial_value in place of the ratio.
calculate_total_return_difference(initial_value, final_value) ==
    RSub(final_value, initial_value)

\* numpy doubles: a zero initial value gives inf or NaN, it does not raise.
calculate_total_return(initial_value, final_value) ==
    RSub(RDiv(final_value, initial_value), R(1))

\* (1 + total_return) ** (1 / years) - 1 with years a Python float: 1 / years
\* raises ZeroDivisionError when years is 0.  The power is carried unevaluated.
\* [base, exp] stands for base ** exp - 1; PowZero is the literal 0.0.
PowZero == [base |-> R(1), exp |-> R(0)]

PowIsZero(v) == v.base = R(1) \/ v.exp = R(0)

calculate_annualized_return(total_return, years) ==
    IF years = R(0)
    THEN [raises |-> "ZeroDivisionError", value |-> PowZero]
    ELSE [raises |-> "none",
          value |-> [base |-> RAdd(R(1), total_return), exp |-> RDiv(R(1), years)]]

\* returns.std() * sqrt(trading_days)
calculate_volatility(returns) ==
    Surd(R(1), RMul(Var(Values(returns)), R(trading_days)), R(1))

ExcessReturns(returns) ==
    LET daily_Rf == RDiv(risk_free_rate, R(trading_days))
    IN  Table([d \in DOMAIN returns |-> RSub(returns[d], daily_Rf)])

calculate_sharpe_ratio(returns) ==
    LET excess_returns == ExcessReturns(returns)
        variance == Var(Values(excess_returns))
    IN  IF REq(variance, R(0)) THEN SurdZero
        ELSE Surd(Mean(Values(excess_returns)), R(trading_days), variance)

\* The denominator taken over all the excess returns, as in the Sharpe ratio.
calculate_sortino_ratio_all_returns(returns) ==
    LET excess_returns == ExcessReturns(returns)
        variance == Var(Values(excess_returns))
    IN  IF REq(variance, R(0)) THEN SurdZero
        ELSE Surd(Mean(Values(excess_returns)), R(trading_days), variance)

calculate_sortino_ratio(returns) ==
    LET excess_returns == ExcessReturns(returns)
        downside_returns ==
            Table([d \in {x \in DOMAIN returns : RLt(returns[x], R(0))} |-> returns[d]])
        downside_var == Var(Values(downside_returns))
    IN  IF REq(downside_var, R(0)) THEN SurdZero
        ELSE Surd(Mean(Values(excess_returns)), R(trading_days), downside_var)

\* (1 + returns).cumprod()
RECURSIVE CumProd(_, _)
CumProd(returns, d) ==
    LET earlier == {x \in DOMAIN returns : x < d}
    IN  IF earlier = {} THEN RAdd(R(1), returns[d])
        ELSE RMul(CumProd(returns, CHOOSE x \in earlier : \A y \in earlier : y <= x),
                  RAdd(R(1), returns[d]))

\* The greatest of a non-empty set of doubles.
RMax(S) == CHOOSE x \in S : \A y \in S : ~RLt(x, y)

RMin(S) == CHOOSE x \in S : \A y \in S : ~RLt(y, x)

\* idxmin / idxmax: the first date holding the extreme value.
idxmin(s) == CHOOSE d \in DOMAIN s :
                 /\ s[d] = RMin({s[x] : x \in DOMAIN s})
                 /\ \A x \in DOMAIN s : s[x] = s[d] => d <= x

idxmax(s) == CHOOSE d \in DOMAIN s :
                 /\ s[d] = RMax({s[x] : x \in DOMAIN s})
                 /\ \A x \in DOMAIN s : s[x] = s[d] => d <= x

\* The whole running maximum in place of the entries up to the trough.
PeakWindowAll(running_max, bottom_date) == running_max

\* running_max[:bottom_date]: the entries up to the trough.
PeakWindow(running_max, bottom_date) ==
    Table([d \in {x \in DOMAIN running_max : x <= bottom_date} |-> running_max[d]])

\* The drawdown taken as cumulative / running_max, without the - 1.
calculate_max_drawdown_ratio(p) ==
    LET returns == calculate_returns(p)
        cumulative == Table([d \in DOMAIN returns |-> CumProd(returns, d)])
        running_max == Table([d \in DOMAIN cumulative |->
                           RMax({cumulative[x] : x \in {y \in DOMAIN cumulative : y <= d}})])
        drawdown == Table([d \in DOMAIN cumulative |-> RDiv(cumulative[d], running_max[d])])
    IN  IF IsEmpty(drawdown)
        THEN [raises |-> "ValueError", max_drawdown |-> NaN,
              peak_date |-> NoneValue, bottom_date |-> NoneValue]
        ELSE LET bottom_date == idxmin(drawdown)
                 upto == PeakWindow(running_max, bottom_date)
             IN  [raises |-> "none",
                  max_drawdown |-> RMin({drawdown[x] : x \in DOMAIN drawdown}),
                  peak_date |-> Some(idxmax(upto)),
                  bottom_date |-> Some(bottom_date)]

\* drawdown.idxmin() raises ValueError on an empty series (a single price).
calculate_max_drawdown(p) ==
    LET returns == calculate_returns(p)
        cumulative == Table([d \in DOMAIN returns |-> CumProd(returns, d)])
        running_max == Table([d \in DOMAIN cumulative |->
                           RMax({cumulative[x] : x \in {y \in DOMAIN cumulative : y <= d}})])
        drawdown == Table([d \in DOMAIN cumulative |->
                        RSub(RDiv(cumulative[d], running_max[d]), R(1))])
    IN  IF IsEmpty(drawdown)
        THEN [raises |-> "ValueError", max_drawdown |-> NaN,
              peak_date |-> NoneValue, bottom_date |-> NoneValue]
        ELSE LET bottom_date == idxmin(drawdown)
                 upto == PeakWindow(running_max, bottom_date)
             IN  [raises |-> "none",
                  max_drawdown |-> RMin({drawdown[x] : x \in DOMAIN drawdown}),
                  peak_date |-> Some(idxmax(upto)),
                  bottom_date |-> Some(bottom_date)]

calculate_win_ratio(returns) ==
    LET positive_return_days == Cardinality({d \in DOMAIN returns : RLt(R(0), returns[d])})
        total_days == Cardinality(DOMAIN returns)
    IN  IF total_days = 0 THEN R(0) ELSE RDiv(R(positive_return_days), R(total_days))


\* Series.cov() with ddof = 1 over two equally indexed series.
Cov(xs, ys) ==
    IF Len(xs) < 2 THEN NaN
    ELSE LET mx == Mean(xs)
             my == Mean(ys)
             pr == Table([k \in 1..Len(xs) |-> RMul(RSub(xs[k], mx), RSub(ys[k], my))])
         IN  RDiv(SumSeq(pr), R(Len(xs) - 1))

\* The market variance taken over all the market returns, aligned or not.
calculate_beta_unaligned(portfolio_returns, market_returns) ==
    LET both == DOMAIN portfolio_returns \cap DOMAIN market_returns
        aligned_portfolio == Table([d \in both |-> portfolio_returns[d]])
        aligned_market == Table([d \in both |-> market_returns[d]])
        covariance == Cov(Values(aligned_portfolio), Values(aligned_market))
        market_variance == Var(Values(market_returns))
    IN  IF REq(market_variance, R(0)) THEN R(0) ELSE RDiv(covariance, market_variance)

\* pd.concat(axis = 1).dropna(): the dates both series have.
calculate_beta(portfolio_returns, market_returns) ==
    LET both == DOMAIN portfolio_returns \cap DOMAIN market_returns
        aligned_portfolio == Table([d \in both |-> portfolio_returns[d]])
        aligned_market == Table([d \in both |-> market_returns[d]])
        covariance == Cov(Values(aligned_portfolio), Values(aligned_market))
        market_variance == Var(Values(aligned_market))
    IN  IF REq(market_variance, R(0)) THEN R(0) ELSE RDiv(covariance, market_variance)

\* portfolio_return - (risk_free_rate + beta * (market_return - risk_free_rate)).
\* The two annualized returns are powers carried unevaluated, so alpha is
\* carried as the linear form
\*     of_portfolio * portfolio_return + of_market * market_return + constant
\* with the coefficients the two statements of the function compute.
calculate_alpha(portfolio_return, beta, market_return) ==
    LET expected_return ==
            [of_market |-> beta,
             constant |-> RSub(risk_free_rate, RMul(beta, risk_free_rate))]
    IN  [portfolio_return |-> portfolio_return,
         market_return |-> market_return,
         of_portfolio |-> R(1),
         of_market |-> RNeg(expected_return.of_market),
         constant |-> RNeg(expected_return.constant)]

-----------------------------------------------------------------------------
(* DataFetcher (data_fetcher.py) *)

\* What stock.history(start, end) may answer: an exception, or the closing
\* prices of any trading days of the range (none for an unknown ticker).
SeriesOver(D) == UNION {[S -> PriceValues] : S \in SUBSET D}

ProviderAnswers(start_date, end_date) ==
    {[error |-> TRUE, df |-> EmptySeries]}
        \cup {[error |-> FALSE, df |-> df] : df \in SeriesOver(start_date..end_date)}

\* Without the test for an empty answer: what the provider gives is stored
\* whatever it is.
fetch_stock_data_storing_empty(c, ticker, start_date, end_date, answer) ==
    LET cache_key == <<ticker, start_date, end_date>>
        df == IF answer.error THEN EmptySeries ELSE answer.df
    IN  IF cache_key \in DOMAIN c THEN [df |-> c[cache_key], called |-> FALSE, cache |-> c]
        ELSE [df |-> df, called |-> TRUE,
              cache |-> [k \in DOMAIN c \cup {cache_key} |-> IF k = cache_key THEN df ELSE c[k]]]

\* Without the cache lookup: the provider is asked on every call and its answer
\* replaces the entry.
fetch_stock_data_refetching(c, ticker, start_date, end_date, answer) ==
    LET cache_key == <<ticker, start_date, end_date>>
    IN  IF answer.error \/ IsEmpty(answer.df)
        THEN [df |-> EmptySeries, called |-> TRUE, cache |-> c]
        ELSE [df |-> answer.df, called |-> TRUE,
              cache |-> [k \in DOMAIN c \cup {cache_key} |->
                            IF k = cache_key THEN answer.df ELSE c[k]]]

\* fetch_stock_data: [df |-> what is returned, called |-> whether the provider
\* was asked, cache |-> the cache afterwards].  The key is the string
\* ticker_start_end; the dates are YYYY-MM-DD or None and hold no underscore, so
\* two keys are equal exactly when the three arguments are: the key is carried
\* as the triple.
fetch_stock_data(c, ticker, start_date, end_date, answer) ==
    LET cache_key == <<ticker, start_date, end_date>>
    IN  IF cache_key \in DOMAIN c THEN [df |-> c[cache_key], called |-> FALSE, cache |-> c]
        ELSE IF answer.error \/ IsEmpty(answer.df)
        THEN [df |-> EmptySeries, called |-> TRUE, cache |-> c]
        ELSE [df |-> answer.df, called |-> TRUE,
              cache |-> [k \in DOMAIN c \cup {cache_key} |->
                            IF k = cache_key THEN answer.df ELSE c[k]]]

\* The benchmark is an index: it has a close on every day of the range, or the
\* provider has nothing for it.
BenchmarkAnswers(start_date, end_date) ==
    {[error |-> TRUE, df |-> EmptySeries], [error |-> FALSE, df |-> EmptySeries]}
        \cup {[error |-> FALSE, df |-> df] : df \in [start_date..end_date -> PriceValues]}

\* get_current_price: a price, or None when no field has one or the provider fails.
CurrentPriceAnswers == {NoneValue} \cup {Some(R(x)) : x \in CurrentPriceValues}

\* get_stock_info: the provider answers or fails; either way a dict with the
\* four fields comes back (a field the provider lacks, and every field when it
\* fails, holds its default).  The fields are display strings: the dict is
\* carried as one value.
StockInfoAnswers == {"info", "error"}

get_stock_info(ticker, answer) == "name, sector, industry, currency"


-----------------------------------------------------------------------------
(* PortfolioAnalyzer (portfolio_analyzer.py) *)

\* datetime.now(): the day of the run.  Purchase dates of a run are the days up
\* to it.
Today == 3

RunDates == 1..Today

Benchmark == "^IXIC"

NoSeries == [none |-> TRUE, s |-> EmptySeries]

TheSeries(s) == [none |-> FALSE, s |-> s]

EmptyDict == <<>>

\* No portfolio file: the portfolio was handed over as a dict.
NoFile == [readable |-> FALSE, error |-> "FileNotFoundError"]

\* dict[key] = value
Put(dict, key, value) ==
    [k \in DOMAIN dict \cup {key} |-> IF k = key THEN value ELSE dict[k]]

\* run_analysis computing the metrics before the value series is built.
run_analysis_metrics_first ==
    <<"fetch_all_data", "calculate_metrics", "calculate_portfolio_value_history",
      "print_performance_summary">>

\* The steps of run_analysis, in the order it calls them.
run_analysis ==
    <<"fetch_all_data", "calculate_portfolio_value_history", "calculate_metrics",
      "print_performance_summary">>

Step == IF pc \in 1..Len(run_analysis) THEN run_analysis[pc] ELSE "return"

Running == raised = "none"

\* min([holding["purchase_date"] for holding in self.portfolio.values()])
earliest_date(pf) ==
    CHOOSE d \in {pf[k].purchase_date : k \in 1..Len(pf)} :
        \A k \in 1..Len(pf) : d <= pf[k].purchase_date

\* fetch_all_data, one holding of the loop: the history from the purchase date on,
\* then, when there is one, the current price and the static info.  The summary
\* line formats current_price with :.4f, which raises TypeError on None.
\* Every holding fetched from the earliest purchase date of the portfolio on.
StartDateEarliest(holding) == earliest_date(portfolio)

StartDate(holding) == holding["purchase_date"]

\* if not df.empty
HasDataAlways(df) == TRUE

HasData(df) == ~IsEmpty(df)

FetchHolding ==
    /\ Running
    /\ Step = "fetch_all_data"
    /\ next_holding \in 1..Len(portfolio)
    /\ LET holding == portfolio[next_holding]
           ticker == holding.ticker
       IN  \E answer \in ProviderAnswers(StartDate(holding), Today),
              current_price \in CurrentPriceAnswers,
              info \in StockInfoAnswers :
               LET got == fetch_stock_data(cache, ticker, StartDate(holding), Today, answer)
               IN  /\ cache' = got.cache
                   /\ fetched' = Put(fetched, ticker, got.df)
                   /\ IF HasData(got.df)
                      THEN /\ holdings_data' = Put(holdings_data, ticker, got.df)
                           /\ current_prices' = Put(current_prices, ticker, current_price)
                           /\ stock_info' = Put(stock_info, ticker, get_stock_info(ticker, info))
                           /\ raised' = IF current_price = NoneValue THEN "TypeError" ELSE "none"
                           /\ next_holding' =
                                  IF current_price = NoneValue THEN next_holding
                                  ELSE next_holding + 1
                           /\ output' = output
                      ELSE \* no further provider call is made
                           /\ current_price = NoneValue
                           /\ info = "info"
                           /\ output' = output \cup {"No data for ticker"}
                           /\ next_holding' = next_holding + 1
                           /\ UNCHANGED <<holdings_data, current_prices, stock_info, raised>>
    /\ calls' = IF next_holding = 1 THEN Append(calls, "fetch_all_data") ELSE calls
    /\ UNCHANGED <<portfolio, portfolio_history, benchmark_data, metrics, pc, divisions,
                   contrib, holdings_performance, prices, result, csv>>

\* fetch_all_data, after the loop: the benchmark from the earliest purchase date on.
FetchBenchmark ==
    /\ Running
    /\ Step = "fetch_all_data"
    /\ next_holding = Len(portfolio) + 1
    /\ \E answer \in BenchmarkAnswers(earliest_date(portfolio), Today) :
           LET got == fetch_stock_data(cache, Benchmark, earliest_date(portfolio), Today, answer)
           IN  /\ cache' = got.cache
               /\ benchmark_data' = TheSeries(got.df)
               /\ output' = output \cup
                      (IF IsEmpty(got.df) THEN {"No data for benchmark"} ELSE {})
                      \cup {"Data fetching complete."}
    /\ pc' = pc + 1
    /\ next_holding' = next_holding + 1
    /\ UNCHANGED <<portfolio, holdings_data, current_prices, stock_info, portfolio_history,
                   metrics, raised, calls, divisions, contrib, fetched,
                   holdings_performance, prices, result, csv>>

\* The price on the date, else the last one before it, else none (the holding
\* is skipped for the date).
\* iloc[0] in place of iloc[-1]: the row of the first date of the slice.
FirstRow(df, rows) ==
    LET first == CHOOSE x \in rows : \A y \in rows : x <= y
    IN  [on |-> first, price |-> df[first]]

\* df.loc[:date].iloc[-1]: the row of the last date of the slice.
LastRow(df, rows) ==
    LET last == CHOOSE x \in rows : \A y \in rows : y <= x
    IN  [on |-> last, price |-> df[last]]

PriceUsed(df, date) ==
    IF date \in DOMAIN df THEN Some([on |-> date, price |-> df[date]])
    ELSE LET available_prices == {x \in DOMAIN df : x <= date}
         IN  IF available_prices # {} THEN Some(LastRow(df, available_prices))
             ELSE NoneValue

\* The loop body without the purchase-date check.
HoldingValueAnyDate(hd, holding, date) ==
    IF holding.ticker \notin DOMAIN hd THEN NoneValue
    ELSE LET price == PriceUsed(hd[holding.ticker], date)
         IN  IF price = NoneValue THEN NoneValue
             ELSE Some([on |-> price[1].on, price |-> price[1].price,
                        value |-> holding.shares * price[1].price])

\* One holding on one date: None when the loop body ends in a continue, else
\* the price used and the value added to total_value.
HoldingValue(hd, holding, date) ==
    IF holding.ticker \notin DOMAIN hd THEN NoneValue
    ELSE IF date < holding.purchase_date THEN NoneValue
    ELSE LET price == PriceUsed(hd[holding.ticker], date)
         IN  IF price = NoneValue THEN NoneValue
             ELSE Some([on |-> price[1].on, price |-> price[1].price,
                        value |-> holding.shares * price[1].price])

\* The value of the date overwritten by each holding in place of added to:
\* the last holding of the mapping that has a value gives the entry.
RECURSIVE TotalValueLastHolding(_, _, _, _)
TotalValueLastHolding(pf, hd, date, k) ==
    IF k = 0 THEN 0
    ELSE LET v == HoldingValue(hd, pf[k], date)
         IN  IF v = NoneValue THEN TotalValueLastHolding(pf, hd, date, k - 1) ELSE v[1].value

RECURSIVE TotalValue(_, _, _, _)
TotalValue(pf, hd, date, k) ==
    IF k = 0 THEN 0
    ELSE LET v == HoldingValue(hd, pf[k], date)
         IN  TotalValue(pf, hd, date, k - 1) + (IF v = NoneValue THEN 0 ELSE v[1].value)

AllDates(hd) == UNION {DOMAIN hd[t] : t \in DOMAIN hd}

\* portfolio_values: every date gets total_value, which starts at 0.0; dropna()
\* then removes the entries that are NaN.
PortfolioValues(pf, hd) ==
    dropna(Table([date \in AllDates(hd) |-> R(TotalValue(pf, hd, date, Len(pf)))]))

Contributions(pf, hd) ==
    [date \in AllDates(hd) |->
        [t \in {pf[k].ticker : k \in 1..Len(pf)} |->
            HoldingValue(hd, pf[CHOOSE k \in 1..Len(pf) : pf[k].ticker = t], date)]]

calculate_portfolio_value_history ==
    /\ Running
    /\ Step = "calculate_portfolio_value_history"
    /\ portfolio_history' = TheSeries(PortfolioValues(portfolio, holdings_data))
    /\ contrib' = Contributions(portfolio, holdings_data)
    /\ calls' = Append(calls, "calculate_portfolio_value_history")
    /\ pc' = pc + 1
    /\ UNCHANGED <<portfolio, holdings_data, current_prices, stock_info, benchmark_data,
                   metrics, cache, next_holding, raised, output, divisions, fetched,
                   holdings_performance, prices, result, csv>>


\* years = days / 365.25
Years(days) == Norm(4 * days, 1461)

\* (last date - first date).days
Days(history) ==
    LET idx == Index(history)
    IN  idx[Len(idx)] - idx[1]

\* The benchmark annualized over the span of its own dates.
BenchmarkFieldsOwnSpan(portfolio_returns, annualized_return, years, close, beta) ==
    [beta |-> Some(beta),
     alpha |-> Some(calculate_alpha(
                   annualized_return, beta,
                   calculate_annualized_return(
                       calculate_total_return(First(close), Last(close)),
                       Years(Days(close))).value)),
     benchmark_return |-> Some(calculate_annualized_return(
                                   calculate_total_return(First(close), Last(close)),
                                   Years(Days(close))).value)]

\* beta, alpha and benchmark_return: computed when there is benchmark data,
\* else all None.
BenchmarkFields(portfolio_returns, annualized_return, years, close, beta) ==
    [beta |-> Some(beta),
     alpha |-> Some(calculate_alpha(
                   annualized_return, beta,
                   calculate_annualized_return(
                       calculate_total_return(First(close), Last(close)), years).value)),
     benchmark_return |-> Some(calculate_annualized_return(
                                   calculate_total_return(First(close), Last(close)),
                                   years).value)]

\* The else branch storing a beta of 0 in place of None.
BenchmarkMetricsZeroBeta(benchmark, portfolio_returns, annualized_return, years) ==
    IF ~benchmark.none /\ ~IsEmpty(benchmark.s)
    THEN BenchmarkFields(portfolio_returns, annualized_return, years, Close(benchmark.s),
                         calculate_beta(portfolio_returns,
                                        calculate_returns(Close(benchmark.s))))
    ELSE [beta |-> Some(R(0)), alpha |-> NoneValue, benchmark_return |-> NoneValue]

BenchmarkMetrics(benchmark, portfolio_returns, annualized_return, years) ==
    IF ~benchmark.none /\ ~IsEmpty(benchmark.s)
    THEN BenchmarkFields(portfolio_returns, annualized_return, years, Close(benchmark.s),
                         calculate_beta(portfolio_returns,
                                        calculate_returns(Close(benchmark.s))))
    ELSE [beta |-> NoneValue, alpha |-> NoneValue, benchmark_return |-> NoneValue]

MetricsDict(history, portfolio_returns, days, total_return, annualized_return, drawdown, with_benchmark) ==
    [initial_value |-> First(history),
     final_value |-> Last(history),
     total_return |-> total_return,
     annualized_return |-> annualized_return,
     volatility |-> calculate_volatility(portfolio_returns),
     sharpe_ratio |-> calculate_sharpe_ratio(portfolio_returns),
     sortino_ratio |-> calculate_sortino_ratio(portfolio_returns),
     max_drawdown |-> drawdown.max_drawdown,
     max_dd_peak_date |-> drawdown.peak_date,
     max_dd_trough_date |-> drawdown.bottom_date,
     win_rate |-> calculate_win_ratio(portfolio_returns),
     beta |-> with_benchmark.beta,
     alpha |-> with_benchmark.alpha,
     benchmark_return |-> with_benchmark.benchmark_return,
     days |-> days,
     years |-> Years(days)]

\* The calls in the order calculate_metrics makes them: the first that raises
\* ends it, before metrics is assigned.
MetricsOrRaise(history, benchmark, portfolio_returns, days, total_return, annualized_return, drawdown) ==
    IF annualized_return.raises # "none"
    THEN [raises |-> annualized_return.raises, metrics |-> EmptyDict]
    ELSE IF drawdown.raises # "none"
    THEN [raises |-> drawdown.raises, metrics |-> EmptyDict]
    ELSE [raises |-> "none",
          metrics |-> MetricsDict(history, portfolio_returns, days, total_return,
                                  annualized_return.value, drawdown,
                                  BenchmarkMetrics(benchmark, portfolio_returns,
                                                   annualized_return.value, Years(days)))]

WithTotalReturn(history, benchmark, portfolio_returns, days, total_return) ==
    MetricsOrRaise(history, benchmark, portfolio_returns, days, total_return,
                   calculate_annualized_return(total_return, Years(days)),
                   calculate_max_drawdown(history))

\* The metrics dict of calculate_metrics, or the exception it ends with
\* (iloc[0] of an empty series is an IndexError).
ComputeMetrics(history, benchmark) ==
    IF IsEmpty(history) THEN [raises |-> "IndexError", metrics |-> EmptyDict]
    ELSE WithTotalReturn(history, benchmark, calculate_returns(history), Days(history),
                         calculate_total_return(First(history), Last(history)))

\* The guard without its test for an empty series.
NoHistoryNoneOnly(history) == history.none

\* self.portfolio_history is None or self.portfolio_history.empty
NoHistory(history) == history.none \/ IsEmpty(history.s)

\* The guard assigning an empty dict before it returns.
calculate_metrics_clearing ==
    /\ Running
    /\ Step = "calculate_metrics"
    /\ calls' = Append(calls, "calculate_metrics")
    /\ IF NoHistory(portfolio_history)
       THEN /\ output' = output \cup {"No portfolio history available."}
            /\ metrics' = EmptyDict
            /\ UNCHANGED <<raised, divisions>>
       ELSE \E m \in {ComputeMetrics(portfolio_history.s, benchmark_data)} :
                /\ raised' = m.raises
                /\ metrics' = IF m.raises = "none" THEN m.metrics ELSE metrics
                /\ divisions' = divisions
                       \cup {"calculate_total_return", "calculate_annualized_return"}
                /\ output' = IF m.raises = "none"
                             THEN output \cup {"Metrics calculation complete."}
                             ELSE output
    /\ pc' = IF raised' = "none" THEN pc + 1 ELSE pc
    /\ UNCHANGED <<portfolio, holdings_data, current_prices, stock_info, portfolio_history,
                   benchmark_data, cache, next_holding, contrib, fetched,
                   holdings_performance, prices, result, csv>>

calculate_metrics ==
    /\ Running
    /\ Step = "calculate_metrics"
    /\ calls' = Append(calls, "calculate_metrics")
    /\ IF NoHistory(portfolio_history)
       THEN /\ output' = output \cup {"No portfolio history available."}
            /\ UNCHANGED <<metrics, raised, divisions>>
       ELSE \E m \in {ComputeMetrics(portfolio_history.s, benchmark_data)} :
                /\ raised' = m.raises
                /\ metrics' = IF m.raises = "none" THEN m.metrics ELSE metrics
                /\ divisions' = divisions
                       \cup {"calculate_total_return", "calculate_annualized_return"}
                /\ output' = IF m.raises = "none"
                             THEN output \cup {"Metrics calculation complete."}
                             ELSE output
    /\ pc' = IF raised' = "none" THEN pc + 1 ELSE pc
    /\ UNCHANGED <<portfolio, holdings_data, current_prices, stock_info, portfolio_history,
                   benchmark_data, cache, next_holding, contrib, fetched,
                   holdings_performance, prices, result, csv>>

\* The CAGR taken whenever holding_years is not 0, negative years included.
HoldingAnnualizedReturnNonZeroYears(total_return, holding_years) ==
    IF holding_years # R(0)
    THEN [base |-> RAdd(R(1), total_return), exp |-> RDiv(R(1), holding_years)]
    ELSE PowZero

\* annualized_return of a holding: the CAGR when holding_years > 0, else 0.0.
HoldingAnnualizedReturn(total_return, holding_years) ==
    IF RLt(R(0), holding_years)
    THEN [base |-> RAdd(R(1), total_return), exp |-> RDiv(R(1), holding_years)]
    ELSE PowZero

\* The weight taken against the initial value of the portfolio.
WeightOfInitialValue(current_value, m) ==
    IF "initial_value" \in DOMAIN m THEN RDiv(current_value, m.initial_value) ELSE R(0)

\* current_value / self.metrics['final_value'] if 'final_value' in self.metrics else 0
Weight(current_value, m) ==
    IF "final_value" \in DOMAIN m THEN RDiv(current_value, m.final_value) ELSE R(0)

\* One record of calculate_each_holding_performance.
HoldingPerformance(holding, current_price, m) ==
    LET purchase_value == R(holding.shares * holding.purchase_price)
        current_value == RMul(R(holding.shares), current_price)
        total_return == RSub(RDiv(current_value, purchase_value), R(1))
        holding_days == Today - holding.purchase_date
        holding_years == Years(holding_days)
    IN  [shares |-> holding.shares,
         purchase_price |-> holding.purchase_price,
         current_price |-> current_price,
         invested |-> purchase_value,
         current_value |-> current_value,
         gain_loss |-> RSub(current_value, purchase_value),
         total_return |-> total_return,
         annualized_return |-> HoldingAnnualizedReturn(total_return, holding_years),
         days_held |-> holding_days,
         weight |-> Weight(current_value, m)]

\* The exception one holding's record ends with: shares * None is a TypeError,
\* a Python float divided by a zero purchase value a ZeroDivisionError.
HoldingRaises(holding, current_price) ==
    IF current_price = NoneValue THEN "TypeError"
    ELSE IF holding.shares * holding.purchase_price = 0 THEN "ZeroDivisionError"
    ELSE "none"

calculate_each_holding_performance(pf, hd, cp, m) ==
    LET listed == {k \in 1..Len(pf) : pf[k].ticker \in DOMAIN hd /\ pf[k].ticker \in DOMAIN cp}
        failing == {k \in listed : HoldingRaises(pf[k], cp[pf[k].ticker]) # "none"}
        first_failing == CHOOSE k \in failing : \A j \in failing : k <= j
    IN  IF failing # {}
        THEN [raises |-> HoldingRaises(pf[first_failing], cp[pf[first_failing].ticker]),
              holdings_performance |-> EmptyDict]
        ELSE [raises |-> "none",
              holdings_performance |->
                  [t \in {pf[k].ticker : k \in listed} |->
                      LET k == CHOOSE j \in listed : pf[j].ticker = t
                      IN  HoldingPerformance(pf[k], cp[t][1], m)]]

print_performance_summary ==
    /\ Running
    /\ Step = "print_performance_summary"
    /\ calls' = Append(calls, "print_performance_summary")
    /\ IF DOMAIN metrics = {}
       THEN /\ output' = output \cup {"No metrics calculated."}
            /\ UNCHANGED <<raised, divisions, holdings_performance>>
       ELSE \E perf \in {calculate_each_holding_performance(
                              portfolio, holdings_data, current_prices, metrics)} :
                /\ raised' = perf.raises
                /\ holdings_performance' =
                       IF perf.raises = "none" THEN Some(perf.holdings_performance)
                       ELSE holdings_performance
                /\ divisions' = divisions \cup
                       (IF DOMAIN perf.holdings_performance # {} \/ perf.raises # "none"
                        THEN {"holding_total_return", "weight"} ELSE {})
                /\ output' = output \cup {"PORTFOLIO OVERVIEW"}
    /\ pc' = IF raised' = "none" THEN pc + 1 ELSE pc
    /\ UNCHANGED <<portfolio, holdings_data, current_prices, stock_info, portfolio_history,
                   benchmark_data, metrics, cache, next_holding, contrib, fetched, prices,
                   result, csv>>

-----------------------------------------------------------------------------
(* A run of run_analysis on a new PortfolioAnalyzer *)

Holdings(t, S, D) ==
    [ticker : {t}, shares : S, purchase_price : PurchasePriceValues, purchase_date : D]

\* The portfolios of the runs: one or two holdings, each ticker once, the first
\* of one share and the second of two, bought on any day up to the run.
RunPortfolios ==
    {<<a>> : a \in Holdings(Tickers[1], {1}, RunDates)}
        \cup {<<a, b>> : a \in Holdings(Tickers[1], {1}, RunDates),
                         b \in Holdings(Tickers[2], {2}, RunDates)}

NewAnalyzer ==
    /\ holdings_data = EmptyDict
    /\ current_prices = EmptyDict
    /\ stock_info = EmptyDict
    /\ portfolio_history = NoSeries
    /\ benchmark_data = NoSeries
    /\ metrics = EmptyDict
    /\ cache = EmptyDict
    /\ pc = 1
    /\ next_holding = 1
    /\ raised = "none"
    /\ output = {}
    /\ calls = <<>>
    /\ divisions = {}
    /\ contrib = EmptyDict
    /\ fetched = EmptyDict
    /\ holdings_performance = NoneValue

NoLibraryCall ==
    /\ prices = EmptySeries
    /\ result = [op |-> "none"]
    /\ csv = NoFile

Init ==
    /\ portfolio \in RunPortfolios
    /\ NewAnalyzer
    /\ NoLibraryCall

Next ==
    \/ FetchHolding
    \/ FetchBenchmark
    \/ calculate_portfolio_value_history
    \/ calculate_metrics
    \/ print_performance_summary

Spec == Init /\ [][Next]_vars


-----------------------------------------------------------------------------
(* The metrics library on its own: each function applied to a price series *)

PriceSeries ==
    UNION {[1..n -> 1..MaxPrice] : n \in 1..MaxLen}

InitMetrics ==
    /\ portfolio = <<>>
    /\ NewAnalyzer
    /\ prices \in PriceSeries
    /\ result = [op |-> "none"]
    /\ csv = NoFile

Returned(op, value) ==
    /\ result.op = "none"
    /\ result' = [op |-> op, value |-> value]
    /\ UNCHANGED <<portfolio, holdings_data, current_prices, stock_info, portfolio_history,
                   benchmark_data, metrics, cache, pc, next_holding, raised, output, calls,
                   divisions, contrib, fetched, holdings_performance, prices, csv>>

ApplyReturns == Returned("calculate_returns", calculate_returns(Close(prices)))

ApplyVolatility ==
    Returned("calculate_volatility", calculate_volatility(calculate_returns(Close(prices))))

ApplySharpe ==
    Returned("calculate_sharpe_ratio", calculate_sharpe_ratio(calculate_returns(Close(prices))))

ApplySortino ==
    Returned("calculate_sortino_ratio", calculate_sortino_ratio(calculate_returns(Close(prices))))

ApplyMaxDrawdown == Returned("calculate_max_drawdown", calculate_max_drawdown(Close(prices)))

ApplyWinRatio ==
    Returned("calculate_win_ratio", calculate_win_ratio(calculate_returns(Close(prices))))

NextMetrics ==
    \/ ApplyReturns
    \/ ApplyVolatility
    \/ ApplySharpe
    \/ ApplySortino
    \/ ApplyMaxDrawdown
    \/ ApplyWinRatio

SpecMetrics == InitMetrics /\ [][NextMetrics]_vars


-----------------------------------------------------------------------------
(* The valuation engine on its own: calculate_portfolio_value_history on any *)
(* holdings and any price series already in holdings_data                    *)

StepIndex(name) == CHOOSE k \in 1..Len(run_analysis) : run_analysis[k] = name

NonEmptySeries == SeriesOver(Dates) \ {EmptySeries}

ValuationPortfolios ==
    {<<a>> : a \in Holdings(Tickers[1], ShareValues, Dates)}
        \cup {<<a, b>> : a \in Holdings(Tickers[1], ShareValues, Dates),
                         b \in Holdings(Tickers[2], ShareValues, Dates)}

TickersOf(pf) == {pf[k].ticker : k \in 1..Len(pf)}

InitValuation ==
    /\ portfolio \in ValuationPortfolios
    /\ \E have \in SUBSET TickersOf(portfolio) : holdings_data \in [have -> NonEmptySeries]
    /\ current_prices = EmptyDict
    /\ stock_info = EmptyDict
    /\ portfolio_history = NoSeries
    /\ benchmark_data = NoSeries
    /\ metrics = EmptyDict
    /\ cache = EmptyDict
    /\ pc = StepIndex("calculate_portfolio_value_history")
    /\ next_holding = Len(portfolio) + 2
    /\ raised = "none"
    /\ output = {}
    /\ calls = <<>>
    /\ divisions = {}
    /\ contrib = EmptyDict
    /\ fetched = holdings_data
    /\ holdings_performance = NoneValue
    /\ NoLibraryCall

NextValuation == calculate_portfolio_value_history

SpecValuation == InitValuation /\ [][NextValuation]_vars


-----------------------------------------------------------------------------
(* Beta on its own: calculate_beta on the returns of a value series and of a *)
(* benchmark series, each over its own dates, as calculate_metrics calls it  *)

BetaSeries == SeriesOver(1..MaxLen)

InitBeta ==
    /\ portfolio = <<>>
    /\ holdings_data = EmptyDict
    /\ current_prices = EmptyDict
    /\ stock_info = EmptyDict
    /\ metrics = EmptyDict
    /\ cache = EmptyDict
    /\ pc = StepIndex("calculate_metrics")
    /\ next_holding = 1
    /\ raised = "none"
    /\ output = {}
    /\ calls = <<>>
    /\ divisions = {}
    /\ contrib = EmptyDict
    /\ fetched = EmptyDict
    /\ holdings_performance = NoneValue
    /\ \E s \in BetaSeries : portfolio_history = TheSeries(Close(s))
    /\ \E s \in BetaSeries : benchmark_data = TheSeries(s)
    /\ NoLibraryCall

ApplyBeta ==
    Returned("calculate_beta",
             calculate_beta(calculate_returns(portfolio_history.s),
                            calculate_returns(Close(benchmark_data.s))))

NextBeta == ApplyBeta

SpecBeta == InitBeta /\ [][NextBeta]_vars


-----------------------------------------------------------------------------
(* The per-holding snapshots on their own: calculate_each_holding_performance *)
(* called on demand (as the chart and report builders call it) and by         *)
(* print_performance_summary, on any holdings of the data model, before or    *)
(* after metrics is populated                                                 *)

\* shares is a non-negative amount and purchase_price any amount, 0 included; a
\* purchase date may be today or later.
SnapshotHoldings(t) ==
    [ticker : {t}, shares : {0, 1, 2}, purchase_price : {0, 1},
     purchase_date : 1..(Today + 1)]

SnapshotPortfolios ==
    {<<a>> : a \in SnapshotHoldings(Tickers[1])}
        \cup {<<a, b>> : a \in SnapshotHoldings(Tickers[1]), b \in SnapshotHoldings(Tickers[2])}

\* metrics as calculate_metrics leaves it: empty, or populated from a value
\* history of two dates.
SnapshotMetrics ==
    {EmptyDict} \cup
        {ComputeMetrics(Close(h), NoSeries).metrics : h \in [{1, Today} -> {2, 4}]}

InitSnapshot ==
    /\ portfolio \in SnapshotPortfolios
    /\ \E have \in SUBSET TickersOf(portfolio) :
           holdings_data = [t \in have |-> Table([d \in {Today} |-> 1])]
    /\ \E priced \in SUBSET TickersOf(portfolio) :
           current_prices \in [priced -> CurrentPriceAnswers]
    /\ stock_info = EmptyDict
    /\ portfolio_history = NoSeries
    /\ benchmark_data = NoSeries
    /\ metrics \in SnapshotMetrics
    /\ cache = EmptyDict
    /\ pc = StepIndex("print_performance_summary")
    /\ next_holding = Len(portfolio) + 2
    /\ raised = "none"
    /\ output = {}
    /\ calls = <<>>
    /\ divisions = {}
    /\ contrib = EmptyDict
    /\ fetched = holdings_data
    /\ holdings_performance = NoneValue
    /\ NoLibraryCall

\* The greatest number of calls made on demand.
MaxCalls == 2

\* The call storing what it computed in metrics.
EachHoldingPerformanceStoring ==
    /\ Running
    /\ Len(calls) < MaxCalls
    /\ \E perf \in {calculate_each_holding_performance(
                        portfolio, holdings_data, current_prices, metrics)} :
           /\ raised' = perf.raises
           /\ holdings_performance' =
                  IF perf.raises = "none" THEN Some(perf.holdings_performance)
                  ELSE holdings_performance
           /\ metrics' = IF perf.raises = "none"
                         THEN Put(metrics, "holdings_performance", perf.holdings_performance)
                         ELSE metrics
    /\ calls' = Append(calls, "calculate_each_holding_performance")
    /\ UNCHANGED <<portfolio, holdings_data, current_prices, stock_info, portfolio_history,
                   benchmark_data, cache, pc, next_holding, output, divisions,
                   contrib, fetched, prices, result, csv>>

\* One call made on demand: what it returns is kept in holdings_performance
\* (a history variable), nothing of the analyzer is written.
EachHoldingPerformance ==
    /\ Running
    /\ Len(calls) < MaxCalls
    /\ \E perf \in {calculate_each_holding_performance(
                        portfolio, holdings_data, current_prices, metrics)} :
           /\ raised' = perf.raises
           /\ holdings_performance' =
                  IF perf.raises = "none" THEN Some(perf.holdings_performance)
                  ELSE holdings_performance
    /\ calls' = Append(calls, "calculate_each_holding_performance")
    /\ UNCHANGED <<portfolio, holdings_data, current_prices, stock_info, portfolio_history,
                   benchmark_data, metrics, cache, pc, next_holding, output, divisions,
                   contrib, fetched, prices, result, csv>>

NextSnapshot ==
    \/ EachHoldingPerformance
    \/ print_performance_summary

SpecSnapshot == InitSnapshot /\ [][NextSnapshot]_vars


-----------------------------------------------------------------------------
(* One holding valued and measured: calculate_portfolio_value_history and then *)
(* calculate_metrics on a portfolio of a single holding, with the price series *)
(* fetch_all_data stores for it (trading days from the purchase date on)       *)

SingleHoldingPortfolios == {<<a>> : a \in Holdings(Tickers[1], ShareValues, Dates)}

SeriesFrom(start_date) == SeriesOver(start_date..MaxDate) \ {EmptySeries}

InitSingleHolding ==
    /\ portfolio \in SingleHoldingPortfolios
    /\ holdings_data \in [TickersOf(portfolio) -> SeriesFrom(portfolio[1].purchase_date)]
    /\ current_prices = EmptyDict
    /\ stock_info = EmptyDict
    /\ portfolio_history = NoSeries
    /\ benchmark_data = TheSeries(EmptySeries)
    /\ metrics = EmptyDict
    /\ cache = EmptyDict
    /\ pc = StepIndex("calculate_portfolio_value_history")
    /\ next_holding = Len(portfolio) + 2
    /\ raised = "none"
    /\ output = {}
    /\ calls = <<>>
    /\ divisions = {}
    /\ contrib = EmptyDict
    /\ fetched = holdings_data
    /\ holdings_performance = NoneValue
    /\ NoLibraryCall

NextSingleHolding ==
    \/ calculate_portfolio_value_history
    \/ calculate_metrics

SpecSingleHolding == InitSingleHolding /\ [][NextSingleHolding]_vars


-----------------------------------------------------------------------------
(* The front end (useful_functions.py, main.py): a portfolio file is loaded  *)
(* and, when that gives a portfolio, run_full_analysis is started on it      *)

\* The greatest number of rows of a portfolio file.
MaxRows == 2

required_cols == {"ticker", "shares", "purchase_price", "purchase_date"}

\* A cell of a numeric column as read_csv hands it over: a number, or text.
Num(x) == [numeric |-> TRUE, value |-> x]

Text == [numeric |-> FALSE, value |-> 0]

\* float(cell): the number, or ValueError on text.
float(cell) ==
    IF cell.numeric THEN [raises |-> "none", value |-> cell.value]
    ELSE [raises |-> "ValueError", value |-> 0]

FullRows ==
    [ticker : {Tickers[k] : k \in 1..Len(Tickers)}, shares : {Num(1), Num(2), Text},
     purchase_price : {Num(1), Num(2)}, purchase_date : {1, 2}]

RowsOver(cols) == {[c \in cols |-> full[c]] : full \in FullRows}

RowSeqs(rows, n) == UNION {[1..k -> rows] : k \in 0..n}

\* A file that read_csv cannot parse.
Unparsable == [readable |-> FALSE, error |-> "ParserError"]

\* The files: missing or unparsable, with the four columns and up to MaxRows
\* rows, or lacking at least one of the four columns.
CsvFiles ==
    {NoFile, Unparsable}
        \cup {[readable |-> TRUE, columns |-> required_cols, rows |-> rows] :
                 rows \in RowSeqs(FullRows, MaxRows)}
        \cup UNION {{[readable |-> TRUE, columns |-> cols, rows |-> rows] :
                        rows \in RowSeqs(RowsOver(cols), 1)} :
                    cols \in (SUBSET required_cols) \ {required_cols}}

\* portfolio.setdefault(ticker, holding): the first row of a ticker is kept.
DictSetDefault(pf, holding) ==
    IF \E k \in 1..Len(pf) : pf[k].ticker = holding.ticker THEN pf
    ELSE Append(pf, holding)

\* portfolio[ticker] = holding: a new key is appended, the value of a key
\* already there is replaced where it stands.
DictSet(pf, holding) ==
    IF \E k \in 1..Len(pf) : pf[k].ticker = holding.ticker
    THEN [k \in 1..Len(pf) |-> IF pf[k].ticker = holding.ticker THEN holding ELSE pf[k]]
    ELSE Append(pf, holding)

\* The loop over df.iterrows(), up to row n.
RECURSIVE RowsToPortfolio(_, _)
RowsToPortfolio(rows, n) ==
    IF n = 0 THEN <<>>
    ELSE DictSet(RowsToPortfolio(rows, n - 1),
                 [ticker |-> rows[n].ticker,
                  shares |-> float(rows[n].shares).value,
                  purchase_price |-> float(rows[n].purchase_price).value,
                  purchase_date |-> rows[n].purchase_date])

\* The body of the try block: the exception it ends with, or the dict built.
LoadBody(file) ==
    IF ~file.readable THEN [raises |-> file.error, portfolio |-> <<>>]
    ELSE IF ~(required_cols \subseteq file.columns)
    THEN [raises |-> "ValueError", portfolio |-> <<>>]
    ELSE IF \E k \in 1..Len(file.rows) :
                \/ float(file.rows[k].shares).raises # "none"
                \/ float(file.rows[k].purchase_price).raises # "none"
    THEN [raises |-> "ValueError", portfolio |-> <<>>]
    ELSE [raises |-> "none", portfolio |-> RowsToPortfolio(file.rows, Len(file.rows))]

\* Without the except Exception clause: only a missing file is caught.
load_portfolio_from_csv_file_errors_only(file) ==
    LET body == LoadBody(file)
    IN  IF body.raises = "FileNotFoundError"
        THEN [raises |-> "none", value |-> NoneValue, message |-> "Error: File not found"]
        ELSE IF body.raises # "none"
        THEN [raises |-> body.raises, value |-> NoneValue, message |-> "Traceback"]
        ELSE [raises |-> "none", value |-> Some(body.portfolio), message |-> "Loaded holdings"]

\* load_portfolio_from_csv: the dict, or None after either except clause.
load_portfolio_from_csv(file) ==
    LET body == LoadBody(file)
    IN  IF body.raises = "FileNotFoundError"
        THEN [raises |-> "none", value |-> NoneValue, message |-> "Error: File not found"]
        ELSE IF body.raises # "none"
        THEN [raises |-> "none", value |-> NoneValue,
              message |-> "Error loading portfolio from CSV"]
        ELSE [raises |-> "none", value |-> Some(body.portfolio), message |-> "Loaded holdings"]

EntryPoints == {"main", "interactive_mode"}

InitLoad ==
    /\ csv \in CsvFiles
    /\ calls \in {<<entry>> : entry \in EntryPoints}
    /\ portfolio = <<>>
    /\ holdings_data = EmptyDict
    /\ current_prices = EmptyDict
    /\ stock_info = EmptyDict
    /\ portfolio_history = NoSeries
    /\ benchmark_data = NoSeries
    /\ metrics = EmptyDict
    /\ cache = EmptyDict
    /\ pc = 1
    /\ next_holding = 1
    /\ raised = "none"
    /\ output = {}
    /\ divisions = {}
    /\ contrib = EmptyDict
    /\ fetched = EmptyDict
    /\ holdings_performance = NoneValue
    /\ prices = EmptySeries
    /\ result = [op |-> "none"]

\* main with a path argument (line 46) and interactive_mode with choice 1
\* (line 197): the call of load_portfolio_from_csv.
LoadPortfolio ==
    /\ Running
    /\ Len(calls) = 1
    /\ \E got \in {load_portfolio_from_csv(csv)} :
           /\ result' = [op |-> "load_portfolio_from_csv", value |-> got.value]
           /\ raised' = got.raises
           /\ output' = output \cup {got.message}
    /\ calls' = Append(calls, "load_portfolio_from_csv")
    /\ UNCHANGED <<portfolio, holdings_data, current_prices, stock_info, portfolio_history,
                   benchmark_data, metrics, cache, pc, next_holding, divisions, contrib,
                   fetched, holdings_performance, prices, csv>>

\* if portfolio: neither None nor an empty dict.
Truthy(value) == value # NoneValue /\ Len(value[1]) > 0

\* main, lines 48-56: run_full_analysis on a portfolio that is truthy, else
\* the message and return.
MainAfterLoad ==
    /\ Running
    /\ calls = <<"main", "load_portfolio_from_csv">>
    /\ IF Truthy(result.value)
       THEN /\ calls' = Append(calls, "run_full_analysis")
            /\ portfolio' = result.value[1]
            /\ output' = output
       ELSE /\ calls' = Append(calls, "return")
            /\ portfolio' = portfolio
            /\ output' = output \cup {"Could not load portfolio."}
    /\ UNCHANGED <<holdings_data, current_prices, stock_info, portfolio_history,
                   benchmark_data, metrics, cache, pc, next_holding, raised, divisions,
                   contrib, fetched, holdings_performance, prices, result, csv>>

\* interactive_mode after choice 1: return on None (lines 199-201), return on
\* an empty dict (lines 258-260), else run_full_analysis (line 287).
InteractiveAfterLoad ==
    /\ Running
    /\ calls = <<"interactive_mode", "load_portfolio_from_csv">>
    /\ IF result.value = NoneValue
       THEN /\ calls' = Append(calls, "return")
            /\ portfolio' = portfolio
            /\ output' = output \cup {"Failed to load portfolio."}
       ELSE IF Len(result.value[1]) = 0
       THEN /\ calls' = Append(calls, "return")
            /\ portfolio' = portfolio
            /\ output' = output \cup {"No portfolio to analyze."}
       ELSE /\ calls' = Append(calls, "run_full_analysis")
            /\ portfolio' = result.value[1]
            /\ output' = output
    /\ UNCHANGED <<holdings_data, current_prices, stock_info, portfolio_history,
                   benchmark_data, metrics, cache, pc, next_holding, raised, divisions,
                   contrib, fetched, holdings_performance, prices, result, csv>>

NextLoad ==
    \/ LoadPortfolio
    \/ MainAfterLoad
    \/ InteractiveAfterLoad

SpecLoad == InitLoad /\ [][NextLoad]_vars


-----------------------------------------------------------------------------
(* The provider wrapper on its own: fetch_stock_data called again and again  *)
(* on one DataFetcher, with any arguments and any answer of the provider     *)

FetchStarts == {Today - 1, Today}

InitFetch ==
    /\ portfolio = <<>>
    /\ NewAnalyzer
    /\ NoLibraryCall

\* One call.  result keeps the arguments, what the provider answered (None when
\* it was not asked) and what the call returned.
FetchStockData ==
    /\ \E k \in 1..Len(Tickers), start_date \in FetchStarts :
           \E answer \in ProviderAnswers(start_date, Today) :
               \E got \in {fetch_stock_data(cache, Tickers[k], start_date, Today, answer)} :
                   /\ cache' = got.cache
                   /\ result' = [op |-> "fetch_stock_data",
                                 cache_key |-> <<Tickers[k], start_date, Today>>,
                                 answer |-> IF got.called THEN Some(answer) ELSE NoneValue,
                                 value |-> got.df]
    /\ UNCHANGED <<portfolio, holdings_data, current_prices, stock_info, portfolio_history,
                   benchmark_data, metrics, pc, next_holding, raised, output, calls,
                   divisions, contrib, fetched, holdings_performance, prices, csv>>

NextFetch == FetchStockData

SpecFetch == InitFetch /\ [][NextFetch]_vars


-----------------------------------------------------------------------------
(* calculate_metrics on its own: called on an analyzer whose metrics is empty *)
(* or already populated and whose portfolio_history is None, empty or not     *)

MeasuredHistories ==
    {NoSeries, TheSeries(EmptySeries)} \cup {TheSeries(Close(h)) : h \in NonEmptySeries}

InitMeasure ==
    /\ portfolio \in SingleHoldingPortfolios
    /\ holdings_data = EmptyDict
    /\ current_prices = EmptyDict
    /\ stock_info = EmptyDict
    /\ portfolio_history \in MeasuredHistories
    /\ benchmark_data = NoSeries
    /\ metrics \in SnapshotMetrics
    /\ cache = EmptyDict
    /\ pc = StepIndex("calculate_metrics")
    /\ next_holding = Len(portfolio) + 2
    /\ raised = "none"
    /\ output = {}
    /\ calls = <<>>
    /\ divisions = {}
    /\ contrib = EmptyDict
    /\ fetched = EmptyDict
    /\ holdings_performance = NoneValue
    /\ NoLibraryCall

NextMeasure == calculate_metrics

SpecMeasure == InitMeasure /\ [][NextMeasure]_vars


-----------------------------------------------------------------------------
(* Properties *)

Range(seq) == {seq[k] : k \in 1..Len(seq)}

Called(step) == step \in Range(calls)

\* The greatest price of the series up to date t, the first price included.
RunningPeak(p, t) == CHOOSE m \in {p[x] : x \in {y \in DOMAIN p : y <= t}} :
                         \A x \in {y \in DOMAIN p : y <= t} : p[x] <= m

\* min over t of price[t] / max(price[first..t]) - 1
ReferenceDrawdown(p) ==
    RMin({RSub(RDiv(R(p[t]), R(RunningPeak(p, t))), R(1)) : t \in DOMAIN p})

\* C1: for every price series of at least two points calculate_max_drawdown
\* returns the minimum over dates t of price[t] / max(price[first..t]) - 1, the
\* first price counting as a candidate peak; so a series that halves from its
\* first to its second price and then recovers (the ratios of [100, 50, 100])
\* gives -1/2 with the peak on the first date and the trough on the second.
C1_MaxDrawdownCountsFirstPrice ==
    (result.op = "calculate_max_drawdown" /\ Len(prices) >= 2) =>
        /\ result.value.raises = "none"
        /\ result.value.max_drawdown = ReferenceDrawdown(prices)
        /\ (prices = <<2, 1, 2>> =>
                /\ result.value.max_drawdown = <<-1, 2>>
                /\ result.value.peak_date = Some(1)
                /\ result.value.bottom_date = Some(2))

\* A holding contributes on date d: it has price data, was bought by d and has a
\* price on or before d.
Contributes(holding, d) ==
    /\ holding.ticker \in DOMAIN holdings_data
    /\ holding.purchase_date <= d
    /\ \E x \in DOMAIN holdings_data[holding.ticker] : x <= d

ValuationDone == ~portfolio_history.none

\* C2: after calculate_portfolio_value_history, portfolio_history has no entry
\* for a date on which no holding contributed: such a date is dropped, not
\* stored with the value 0.
C2_NoEntryWithoutContribution ==
    ValuationDone =>
        \A d \in DOMAIN portfolio_history.s :
            \E k \in 1..Len(portfolio) : Contributes(portfolio[k], d)

\* C3: in fetch_all_data a failing provider call for one holding (no history,
\* no current price, no static info) is not fatal: fetch_all_data raises
\* nothing and goes on to the other holdings and the benchmark.
C3_FetchFailureNotFatal ==
    Step = "fetch_all_data" => raised = "none"

\* C4: when the portfolio value series has exactly one date, calculate_metrics
\* completes without raising and metrics is populated.
C4_SingleDateDegrades ==
    (Called("calculate_metrics") /\ Cardinality(DOMAIN portfolio_history.s) = 1) =>
        /\ raised = "none"
        /\ DOMAIN metrics # {}

\* C5: on a price series of length 1 calculate_returns yields an empty series,
\* and calculate_volatility, calculate_sharpe_ratio and calculate_sortino_ratio
\* on that empty return series each return exactly 0, not NaN.
C5_EmptyReturnsGiveZero ==
    Len(prices) = 1 =>
        /\ result.op = "calculate_returns" => IsEmpty(result.value)
        /\ result.op \in {"calculate_volatility", "calculate_sharpe_ratio",
                          "calculate_sortino_ratio"} => SurdIsZero(result.value)

PositiveHoldings ==
    /\ \A k \in 1..Len(portfolio) : portfolio[k].shares > 0
    /\ \A t \in DOMAIN holdings_data :
           \A d \in DOMAIN holdings_data[t] : holdings_data[t][d] > 0

\* C6: in every run, whenever calculate_metrics calls calculate_total_return
\* the initial value (the first entry of portfolio_history) is not zero, for
\* holdings of positive shares and positive prices and any purchase dates.
C6_InitialValueNotZero ==
    ("calculate_total_return" \in divisions /\ PositiveHoldings) =>
        First(portfolio_history.s) # R(0)

C6_Witness ==
    /\ "calculate_total_return" \in divisions
    /\ PositiveHoldings
    /\ Len(portfolio) = 2
    /\ portfolio[1].purchase_date > portfolio[2].purchase_date
    /\ DOMAIN holdings_data = TickersOf(portfolio)
    /\ Cardinality(DOMAIN portfolio_history.s) = Today

RECURSIVE SumOver(_, _)
SumOver(S, f) ==
    IF S = {} THEN 0
    ELSE LET x == CHOOSE y \in S : TRUE
         IN  f[x] + SumOver(S \ {x}, f)

\* The holding's price for date d: its close on the last date of its series
\* that is not after d.
PriceFor(holding, d) ==
    LET df == holdings_data[holding.ticker]
        on == CHOOSE x \in DOMAIN df : x <= d /\ \A y \in DOMAIN df : y <= d => y <= x
    IN  df[on]

\* C7: for every date d of portfolio_history the stored value is the sum, over
\* exactly the holdings that have price data and purchase_date <= d, of shares
\* times the holding's price for d; a holding bought after d adds nothing.
C7_ValueIsSumOfHeldHoldings ==
    ValuationDone =>
        \A d \in DOMAIN portfolio_history.s :
            /\ portfolio_history.s[d] =
                  R(SumOver({k \in 1..Len(portfolio) : Contributes(portfolio[k], d)},
                            [k \in 1..Len(portfolio) |->
                                IF Contributes(portfolio[k], d)
                                THEN portfolio[k].shares * PriceFor(portfolio[k], d)
                                ELSE 0]))
            /\ \A k \in 1..Len(portfolio) :
                   portfolio[k].purchase_date > d => contrib[d][portfolio[k].ticker] = NoneValue

C7_Witness ==
    /\ ValuationDone
    /\ \E d \in DOMAIN portfolio_history.s :
           \E j, k \in 1..Len(portfolio) :
               /\ Contributes(portfolio[j], d)
               /\ portfolio[k].ticker \in DOMAIN holdings_data
               /\ d \in DOMAIN holdings_data[portfolio[k].ticker]
               /\ portfolio[k].purchase_date > d
               /\ \A x \in DOMAIN holdings_data[portfolio[k].ticker] :
                      x < portfolio[k].purchase_date

\* C8: the price used for a holding on date d is its close on d when its series
\* has d, else its close on the greatest earlier date of its series; never a
\* close of a later date; and with no close on or before d the holding is
\* skipped for d.
C8_PriceOnOrLastBefore ==
    ValuationDone =>
        \A d \in DOMAIN contrib :
            \A k \in 1..Len(portfolio) :
                LET holding == portfolio[k]
                    used == contrib[d][holding.ticker]
                IN  (holding.ticker \in DOMAIN holdings_data /\ holding.purchase_date <= d) =>
                        LET df == holdings_data[holding.ticker]
                            earlier == {x \in DOMAIN df : x < d}
                        IN  /\ d \in DOMAIN df =>
                                used # NoneValue /\ used[1].on = d /\ used[1].price = df[d]
                            /\ (d \notin DOMAIN df /\ earlier # {}) =>
                                /\ used # NoneValue
                                /\ used[1].on \in earlier
                                /\ \A x \in earlier : x <= used[1].on
                                /\ used[1].price = df[used[1].on]
                            /\ (d \notin DOMAIN df /\ earlier = {}) => used = NoneValue
                            /\ used # NoneValue => used[1].on <= d

C8_Witness ==
    /\ ValuationDone
    /\ raised = "none"
    /\ \E d \in DOMAIN contrib : \E t \in DOMAIN contrib[d] :
           contrib[d][t] # NoneValue /\ contrib[d][t][1].on < d
               /\ \E x \in DOMAIN holdings_data[t] : x > d
    /\ \E d \in DOMAIN contrib : \E k \in 1..Len(portfolio) :
           /\ portfolio[k].ticker \in DOMAIN holdings_data
           /\ portfolio[k].purchase_date <= d
           /\ contrib[d][portfolio[k].ticker] = NoneValue

\* The order in which one run takes its steps.
StepOrder ==
    <<"fetch_all_data", "calculate_portfolio_value_history", "calculate_metrics",
      "print_performance_summary">>

IsPrefix(xs, ys) == Len(xs) <= Len(ys) /\ \A k \in 1..Len(xs) : xs[k] = ys[k]

FetchSettled == next_holding = Len(portfolio) + 2 /\ ~benchmark_data.none

\* C9: in one run the steps happen in the order fetch, value history, metrics,
\* each at most once; valuation starts only after the fetch of every holding
\* and of the benchmark has settled, metrics computation only after the value
\* series is built, and metrics is assigned at most once.
C9_StepsInOrderOnce ==
    /\ [](IsPrefix(calls, StepOrder))
    /\ [](Called("calculate_portfolio_value_history") => FetchSettled)
    /\ [](Called("calculate_metrics") => ValuationDone)
    /\ [][DOMAIN metrics # {} => metrics' = metrics]_vars

C9_Witness ==
    /\ calls = StepOrder
    /\ Step = "return"
    /\ DOMAIN metrics # {}
    /\ Len(portfolio) = 2

NothingFetched == FetchSettled /\ DOMAIN holdings_data = {}

\* C10: a run in which no holding is fetched (every fetch returns an empty
\* series) ends with metrics still empty, reports that there is nothing to
\* analyze, performs no division and raises no error.
C10_NothingToAnalyze ==
    NothingFetched =>
        /\ raised = "none"
        /\ DOMAIN metrics = {}
        /\ divisions = {}
        /\ Called("calculate_metrics") => "No portfolio history available." \in output
        /\ Called("print_performance_summary") => "No metrics calculated." \in output

C10_Witness ==
    /\ NothingFetched
    /\ Step = "return"
    /\ calls = StepOrder
    /\ Len(portfolio) = 2
    /\ ~IsEmpty(benchmark_data.s)


\* The holdings whose price-history fetch came back empty.
EmptyFetches == {t \in DOMAIN fetched : IsEmpty(fetched[t])}

\* C11: a holding whose price-history fetch yields an empty series is excluded
\* from every later step: it has no entry in holdings_data, current_prices or
\* stock_info, no date of portfolio_history has a contribution of it or comes
\* from it, and calculate_each_holding_performance returns no record for it.
C11_EmptyFetchExcluded ==
    \A t \in EmptyFetches :
        /\ t \notin DOMAIN holdings_data
        /\ t \notin DOMAIN current_prices
        /\ t \notin DOMAIN stock_info
        /\ \A d \in DOMAIN contrib : contrib[d][t] = NoneValue
        /\ ValuationDone =>
               DOMAIN portfolio_history.s \subseteq
                   UNION {DOMAIN fetched[u] : u \in DOMAIN fetched \ EmptyFetches}
        /\ holdings_performance # NoneValue => t \notin DOMAIN holdings_performance[1]

C11_Witness ==
    /\ EmptyFetches # {}
    /\ holdings_performance # NoneValue
    /\ DOMAIN holdings_performance[1] # {}
    /\ Cardinality(DOMAIN portfolio_history.s) >= 2
    /\ Step = "return"


MetricsPopulated == DOMAIN metrics # {}

NoBenchmark == benchmark_data.none \/ IsEmpty(benchmark_data.s)

\* C12: once calculate_metrics has populated metrics, beta, alpha and
\* benchmark_return are all None (not 0) when the benchmark data is missing or
\* empty and all present when it is non-empty; never some of them only.
C12_BenchmarkFieldsAllOrNone ==
    MetricsPopulated =>
        IF NoBenchmark
        THEN /\ metrics.beta = NoneValue
             /\ metrics.alpha = NoneValue
             /\ metrics.benchmark_return = NoneValue
        ELSE /\ metrics.beta # NoneValue
             /\ metrics.alpha # NoneValue
             /\ metrics.benchmark_return # NoneValue

C12_Witness ==
    /\ MetricsPopulated
    /\ NoBenchmark
    /\ Len(portfolio) = 2
    /\ DOMAIN holdings_data = TickersOf(portfolio)


\* The dates of the compounded-return series of p: every date but the first.
\* Its value on date t is p[t] / p[1], so values compare as the prices do.
CompoundedDates(p) == 2..Len(p)

\* The running maximum of the compounded returns in force on date t, as a price.
PeakPriceAt(p, t) ==
    CHOOSE m \in {p[x] : x \in 2..t} : \A x \in 2..t : p[x] <= m

\* The drawdown on date t: value / running maximum - 1.
DrawdownAt(p, t) == RSub(RDiv(R(p[t]), R(PeakPriceAt(p, t))), R(1))

DrawdownReturned == result.op = "calculate_max_drawdown" /\ result.value.raises = "none"

\* C13: on every price series on which calculate_max_drawdown returns,
\* peak_date <= trough_date, trough_date is a date where the drawdown (of the
\* compounded returns, against their running maximum) is least, and peak_date is
\* the first date on which the running maximum in force at the trough was
\* reached: the peak preceding the trough, not a later and higher one.
C13_PeakPrecedesTrough ==
    DrawdownReturned =>
        LET peak == result.value.peak_date[1]
            trough == result.value.bottom_date[1]
        IN  /\ peak \in CompoundedDates(prices)
            /\ trough \in CompoundedDates(prices)
            /\ peak <= trough
            /\ \A t \in CompoundedDates(prices) :
                   ~RLt(DrawdownAt(prices, t), DrawdownAt(prices, trough))
            /\ result.value.max_drawdown = DrawdownAt(prices, trough)
            /\ prices[peak] = PeakPriceAt(prices, trough)
            /\ \A x \in 2..(peak - 1) : prices[x] < prices[peak]

C13_Witness ==
    /\ DrawdownReturned
    /\ RLt(result.value.max_drawdown, R(0))
    /\ \E x \in CompoundedDates(prices) :
           /\ x > result.value.bottom_date[1]
           /\ prices[x] > prices[result.value.peak_date[1]]


\* The double v is the fraction n / d (d > 0).
IsFraction(v, n, d) == v[2] > 0 /\ v[1] * d = n * v[2]

\* C14: on a price series of n points calculate_returns yields
\* return[i] = price[i] / price[i-1] - 1 for every i after the first and drops
\* the first element: n - 1 entries when n >= 2, none when n < 2.
C14_ReturnsDropFirst ==
    result.op = "calculate_returns" =>
        /\ DOMAIN result.value = 2..Len(prices)
        /\ Cardinality(DOMAIN result.value) = IF Len(prices) >= 2 THEN Len(prices) - 1 ELSE 0
        /\ \A i \in 2..Len(prices) :
               IsFraction(result.value[i], prices[i] - prices[i - 1], prices[i - 1])

C14_Witness ==
    /\ result.op = "calculate_returns"
    /\ Len(prices) = 3
    /\ prices[1] < prices[2]
    /\ prices[3] < prices[2]
    /\ RLt(R(0), result.value[2])
    /\ RLt(result.value[3], R(0))


RECURSIVE RSumOver(_, _)
RSumOver(S, f) ==
    IF S = {} THEN R(0)
    ELSE LET x == CHOOSE y \in S : TRUE
         IN  RAdd(f[x], RSumOver(S \ {x}, f))

\* The return of position i of a price sequence.
ReturnAt(p, i) == <<p[i] - p[i - 1], p[i - 1]>>

\* The sample variance (divisor k - 1) of the values f has on the k >= 2
\* members of S: (k * sum of squares - square of the sum) / (k * (k - 1)).
SampleVariance(S, f) ==
    LET k == Cardinality(S)
        sum == RSumOver(S, f)
        squares == RSumOver(S, [x \in S |-> RMul(f[x], f[x])])
    IN  RDiv(RSub(RMul(R(k), squares), RMul(sum, sum)), R(k * (k - 1)))

\* The mean of all the excess returns of p: mean return - 0.03 / 252.
MeanExcess(p) ==
    RSub(RDiv(RSumOver(2..Len(p), [i \in 2..Len(p) |-> ReturnAt(p, i)]), R(Len(p) - 1)),
         <<1, 8400>>)

\* The positions of the returns strictly below 0.
Downside(p) == {i \in 2..Len(p) : p[i] < p[i - 1]}

DownsideVariance(p) == SampleVariance(Downside(p), [i \in Downside(p) |-> ReturnAt(p, i)])

\* C15: calculate_sortino_ratio is the mean of ALL the excess returns divided
\* by the standard deviation of only the returns strictly below 0, times
\* sqrt(trading_days); it is 0 whenever that downside deviation is 0.  (With
\* fewer than two returns below 0 the deviation, and so the ratio, is NaN.)
C15_SortinoAsymmetric ==
    (result.op = "calculate_sortino_ratio" /\ Len(prices) >= 2) =>
        IF Cardinality(Downside(prices)) < 2 THEN SurdIsNaN(result.value)
        ELSE IF DownsideVariance(prices) = R(0) THEN result.value = SurdZero
        ELSE /\ result.value.c = MeanExcess(prices)
             /\ result.value.r = R(252)
             /\ result.value.q = DownsideVariance(prices)

C15_Witness ==
    /\ result.op = "calculate_sortino_ratio"
    /\ Cardinality(Downside(prices)) = 2
    /\ \E i \in 2..Len(prices) : prices[i] > prices[i - 1]
    /\ DownsideVariance(prices) # R(0)
    /\ ~SurdIsNaN(result.value)


\* Every holding bought on the same date, with data over the same dates at a
\* constant price.
FlatHoldings ==
    /\ DOMAIN holdings_data = TickersOf(portfolio)
    /\ \A j, k \in 1..Len(portfolio) :
           /\ portfolio[j].purchase_date = portfolio[k].purchase_date
           /\ DOMAIN holdings_data[portfolio[j].ticker] = DOMAIN holdings_data[portfolio[k].ticker]
    /\ \A t \in DOMAIN holdings_data :
           \A d, e \in DOMAIN holdings_data[t] : holdings_data[t][d] = holdings_data[t][e]

FlatDates == DOMAIN holdings_data[portfolio[1].ticker]

FlatMetricsAllZero ==
    /\ raised = "none"
    /\ MetricsPopulated
    /\ metrics.total_return = R(0)
    /\ PowIsZero(metrics.annualized_return)
    /\ SurdIsZero(metrics.volatility)
    /\ SurdIsZero(metrics.sharpe_ratio)

\* C16: for holdings all bought on the same date with flat prices over the same
\* dates, at least two of them, the run produces total_return = 0,
\* annualized_return = 0, volatility = 0 and sharpe_ratio = 0.
C16_FlatPricesAllZero ==
    (Called("calculate_metrics") /\ FlatHoldings /\ Cardinality(FlatDates) >= 2) =>
        FlatMetricsAllZero


\* The dates on which a series over dates has a return: all but its first.
ReturnDates(s) == {d \in DOMAIN s : \E x \in DOMAIN s : x < d}

\* The return of a series of integer closes on date d, against its previous date.
ReturnOn(s, d) ==
    LET before == CHOOSE x \in DOMAIN s :
                      x < d /\ \A y \in DOMAIN s : y < d => y <= x
    IN  <<s[d] - s[before], s[before]>>

\* The closes behind portfolio_history (whole amounts).
HistoryCloses == [d \in DOMAIN portfolio_history.s |-> portfolio_history.s[d][1]]

CommonDates == ReturnDates(HistoryCloses) \cap ReturnDates(benchmark_data.s)

\* The sample covariance (divisor k - 1) of f and g over the k >= 2 members of S.
SampleCovariance(S, f, g) ==
    LET k == Cardinality(S)
        products == RSumOver(S, [x \in S |-> RMul(f[x], g[x])])
    IN  RDiv(RSub(RMul(R(k), products), RMul(RSumOver(S, f), RSumOver(S, g))),
             R(k * (k - 1)))

CommonPortfolioReturns == [d \in CommonDates |-> ReturnOn(HistoryCloses, d)]

CommonMarketReturns == [d \in CommonDates |-> ReturnOn(benchmark_data.s, d)]

\* C17: calculate_beta uses only the dates both return series have, returns
\* covariance(portfolio, market) / variance(market) over those dates, and
\* returns 0 when the market variance over those dates is 0.  (With fewer than
\* two common dates covariance and variance, and so beta, are NaN.)
C17_BetaOverCommonDates ==
    result.op = "calculate_beta" =>
        IF Cardinality(CommonDates) < 2 THEN IsNaN(result.value)
        ELSE IF SampleVariance(CommonDates, CommonMarketReturns) = R(0)
        THEN result.value = R(0)
        ELSE result.value =
                 RDiv(SampleCovariance(CommonDates, CommonPortfolioReturns, CommonMarketReturns),
                      SampleVariance(CommonDates, CommonMarketReturns))

C17_Witness ==
    /\ result.op = "calculate_beta"
    /\ Cardinality(CommonDates) >= 2
    /\ ReturnDates(HistoryCloses) # ReturnDates(benchmark_data.s)
    /\ SampleVariance(CommonDates, CommonMarketReturns) # R(0)
    /\ result.value # R(0)
    /\ IsFinite(result.value)


SnapshotReturned == holdings_performance # NoneValue

\* The holdings that have price data and an entry of current price.
Snapshotted ==
    {k \in 1..Len(portfolio) :
        portfolio[k].ticker \in DOMAIN holdings_data
            /\ portfolio[k].ticker \in DOMAIN current_prices}

\* C18: for every holding that has price data and a current price the record
\* of calculate_each_holding_performance has invested = shares * purchase_price,
\* current_value = shares * current_price, gain_loss = current_value - invested,
\* total_return = current_value / invested - 1 and, with
\* years_held = days_held / 365.25, annualized_return =
\* (1 + total_return) ^ (1 / years_held) - 1 when years_held > 0 and exactly 0
\* otherwise (a purchase date of today or later included).
C18_HoldingRecord ==
    SnapshotReturned =>
        /\ DOMAIN holdings_performance[1] = {portfolio[k].ticker : k \in Snapshotted}
        /\ \A k \in Snapshotted :
               LET holding == portfolio[k]
                   record == holdings_performance[1][holding.ticker]
                   price == current_prices[holding.ticker][1]
                   invested == holding.shares * holding.purchase_price
                   days_held == Today - holding.purchase_date
               IN  /\ record.invested = <<invested, 1>>
                   /\ IsFraction(record.current_value, holding.shares * price[1], price[2])
                   /\ record.gain_loss = RSub(record.current_value, record.invested)
                   /\ IsFraction(record.total_return,
                                 holding.shares * price[1] - invested * price[2],
                                 invested * price[2])
                   /\ record.days_held = days_held
                   /\ IF days_held > 0
                      THEN /\ record.annualized_return.base = RAdd(R(1), record.total_return)
                           /\ IsFraction(record.annualized_return.exp, 1461, 4 * days_held)
                      ELSE record.annualized_return = PowZero

C18_Witness ==
    /\ SnapshotReturned
    /\ Cardinality(Snapshotted) = 2
    /\ \E k \in Snapshotted : portfolio[k].purchase_date < Today
    /\ \E k \in Snapshotted : portfolio[k].purchase_date > Today
    /\ \E k \in Snapshotted :
           holdings_performance[1][portfolio[k].ticker].total_return # R(0)

\* C19: in every record of calculate_each_holding_performance weight is
\* current_value / metrics' final_value when metrics is populated, and 0 for
\* every holding when the call comes before metrics is populated.
C19_Weight ==
    SnapshotReturned =>
        \A t \in DOMAIN holdings_performance[1] :
            LET record == holdings_performance[1][t]
            IN  IF MetricsPopulated
                THEN record.weight = RDiv(record.current_value, metrics.final_value)
                ELSE record.weight = R(0)

C19_Witness ==
    /\ SnapshotReturned
    /\ ~MetricsPopulated
    /\ Cardinality(DOMAIN holdings_performance[1]) = 2
    /\ \A t \in DOMAIN holdings_performance[1] :
           holdings_performance[1][t].current_value # R(0)

\* C20: calculate_each_holding_performance never raises for holdings of the
\* data model: a holding whose invested amount is 0 (shares = 0 or
\* purchase_price = 0) or whose current price is absent gets a record with a
\* sentinel or is skipped.
C20_SnapshotNeverRaises ==
    (\E k \in Snapshotted :
         \/ portfolio[k].shares * portfolio[k].purchase_price = 0
         \/ current_prices[portfolio[k].ticker] = NoneValue)
        => raised = "none"



\* The portfolio with the shares of every holding multiplied by k.
Scaled(pf, k) == [i \in 1..Len(pf) |-> [pf[i] EXCEPT !.shares = k * pf[i].shares]]

ScaleFactors == {2, 3}

\* C21: for a portfolio of one holding over a fixed price series, every entry of
\* portfolio_history is shares times the close of its date, initial_value and
\* final_value are shares times the first and the last close, and total_return
\* is (last close - first close) / first close: multiplying shares by k
\* multiplies every entry, initial_value and final_value by k and leaves
\* total_return unchanged.
C21_SharesScaleValuesNotReturn ==
    (Len(portfolio) = 1 /\ Called("calculate_metrics")) =>
        LET shares == portfolio[1].shares
            close == holdings_data[portfolio[1].ticker]
            history == portfolio_history.s
        IN  /\ DOMAIN history = DOMAIN close
            /\ \A d \in DOMAIN history : history[d] = R(shares * close[d])
            /\ \A k \in ScaleFactors :
                   LET scaled == PortfolioValues(Scaled(portfolio, k), holdings_data)
                       m == ComputeMetrics(scaled, benchmark_data)
                   IN  /\ DOMAIN scaled = DOMAIN history
                       /\ \A d \in DOMAIN history : scaled[d] = RMul(R(k), history[d])
                       /\ m.raises = raised
                       /\ MetricsPopulated =>
                              /\ m.metrics.initial_value = RMul(R(k), metrics.initial_value)
                              /\ m.metrics.final_value = RMul(R(k), metrics.final_value)
                              /\ m.metrics.total_return = metrics.total_return
            /\ MetricsPopulated =>
                   /\ metrics.initial_value = R(shares * First(close))
                   /\ metrics.final_value = R(shares * Last(close))
                   /\ IsFraction(metrics.total_return, Last(close) - First(close), First(close))

C21_Witness ==
    /\ Len(portfolio) = 1
    /\ portfolio[1].shares = 2
    /\ MetricsPopulated
    /\ Cardinality(DOMAIN portfolio_history.s) = 3
    /\ metrics.total_return # R(0)


LoadReturned == result.op = "load_portfolio_from_csv"

\* The last row of the file that names the ticker.
LastRowOf(rows, ticker) ==
    CHOOSE i \in 1..Len(rows) :
        /\ rows[i].ticker = ticker
        /\ \A j \in 1..Len(rows) : rows[j].ticker = ticker => j <= i

\* C22: when load_portfolio_from_csv returns a mapping it holds exactly one
\* holding for every distinct ticker of the file and none for any other ticker,
\* and the holding of a ticker carries the shares, purchase_price and
\* purchase_date of the last row of the file that names the ticker.
C22_OneHoldingPerTickerLastRowWins ==
    (LoadReturned /\ result.value # NoneValue) =>
        LET pf == result.value[1]
            rows == csv.rows
        IN  /\ {pf[k].ticker : k \in 1..Len(pf)} = {rows[i].ticker : i \in 1..Len(rows)}
            /\ \A j, k \in 1..Len(pf) : pf[j].ticker = pf[k].ticker => j = k
            /\ \A k \in 1..Len(pf) :
                   LET last == rows[LastRowOf(rows, pf[k].ticker)]
                   IN  /\ last.shares.numeric /\ pf[k].shares = last.shares.value
                       /\ last.purchase_price.numeric
                       /\ pf[k].purchase_price = last.purchase_price.value
                       /\ pf[k].purchase_date = last.purchase_date

C22_Witness ==
    /\ LoadReturned
    /\ result.value # NoneValue
    /\ Len(result.value[1]) = 1
    /\ Len(csv.rows) = 2
    /\ csv.rows[1].shares # csv.rows[2].shares
    /\ csv.rows[1].purchase_price # csv.rows[2].purchase_price
    /\ csv.rows[1].purchase_date # csv.rows[2].purchase_date

\* The file cannot be read, or lacks one of the four required columns.
Unloadable == ~csv.readable \/ ~(required_cols \subseteq csv.columns)

\* C23: on a file that cannot be read or lacks a required column,
\* load_portfolio_from_csv raises nothing and returns None, and the caller
\* (main, interactive_mode) returns without starting run_full_analysis.
C23_UnloadableFileStartsNoAnalysis ==
    Unloadable =>
        /\ raised = "none"
        /\ LoadReturned => result.value = NoneValue
        /\ ~Called("run_full_analysis")
        /\ portfolio = <<>>
        /\ Len(calls) = 3 => calls[3] = "return"

C23_Witness ==
    /\ csv.readable
    /\ Unloadable
    /\ Len(csv.rows) = 1
    /\ calls = <<"interactive_mode", "load_portfolio_from_csv", "return">>


FetchReturned == result.op = "fetch_stock_data"

\* The call asked the provider and got an exception or no rows (the answer for
\* an unknown ticker).
ProviderFailed(r) ==
    /\ r.op = "fetch_stock_data"
    /\ r.answer # NoneValue
    /\ (r.answer[1].error \/ IsEmpty(r.answer[1].df))

\* C24: a call of fetch_stock_data to which the provider answers with an
\* exception or with no rows returns an empty series, raises nothing and leaves
\* the cache exactly as it was.
C24_FetchFailsSoft ==
    [][ProviderFailed(result') =>
           /\ IsEmpty(result'.value)
           /\ cache' = cache
           /\ raised' = "none"]_vars

\* A call with a stored key after which the provider fails on another key.
C24_Witness ==
    /\ ProviderFailed(result)
    /\ result.answer[1].error
    /\ DOMAIN cache # {}
    /\ result.cache_key \notin DOMAIN cache

\* C25: an entry of the cache is never empty, never overwritten and never
\* removed, and a call whose three arguments are the key of an entry returns the
\* stored series without asking the provider.
C25_CacheInsertIfAbsent ==
    [][/\ \A key \in DOMAIN cache :
              /\ ~IsEmpty(cache[key])
              /\ key \in DOMAIN cache'
              /\ cache'[key] = cache[key]
       /\ (result'.op = "fetch_stock_data" /\ result'.cache_key \in DOMAIN cache) =>
              /\ result'.value = cache[result'.cache_key]
              /\ result'.answer = NoneValue]_vars

\* A call served from the cache while other keys are stored too.
C25_Witness ==
    /\ FetchReturned
    /\ result.answer = NoneValue
    /\ result.cache_key \in DOMAIN cache
    /\ Cardinality(DOMAIN cache) >= 2


\* C26: a call of calculate_metrics made while portfolio_history is None or
\* empty leaves metrics exactly as it was, be it empty or already populated.
C26_NoHistoryLeavesMetrics ==
    [][(calls' = Append(calls, "calculate_metrics") /\ NoHistory(portfolio_history)) =>
           metrics' = metrics]_vars

\* The call was made on an empty series with metrics populated before it.
C26_Witness ==
    /\ Called("calculate_metrics")
    /\ ~portfolio_history.none
    /\ IsEmpty(portfolio_history.s)
    /\ MetricsPopulated
    /\ "No portfolio history available." \in output


\* The holdings of the mapping in the opposite order.
Reversed(pf) == [k \in 1..Len(pf) |-> pf[Len(pf) + 1 - k]]

\* C27: the series calculate_portfolio_value_history builds does not depend on
\* the order of the holdings in the mapping: with the holdings listed in the
\* opposite order it has the same dates (the dates of the price series, each
\* once, ascending) and the same value on every date.
C27_HoldingOrderIrrelevant ==
    ValuationDone =>
        LET history == portfolio_history.s
            other == PortfolioValues(Reversed(portfolio), holdings_data)
        IN  /\ DOMAIN history = AllDates(holdings_data)
            /\ \A i, j \in 1..Len(Index(history)) :
                   i < j => Index(history)[i] < Index(history)[j]
            /\ Index(other) = Index(history)
            /\ \A d \in DOMAIN history : other[d] = history[d]

\* Two holdings with different values on a date both have a price for.
C27_Witness ==
    /\ ValuationDone
    /\ Len(portfolio) = 2
    /\ \E d \in DOMAIN portfolio_history.s :
           /\ contrib[d][portfolio[1].ticker] # NoneValue
           /\ contrib[d][portfolio[2].ticker] # NoneValue
           /\ contrib[d][portfolio[1].ticker][1].value # contrib[d][portfolio[2].ticker][1].value


\* The step is a call of one of the two reporting functions.
ReportingCall ==
    \/ calls' = Append(calls, "calculate_each_holding_performance")
    \/ calls' = Append(calls, "print_performance_summary")

\* C28: calculate_each_holding_performance and print_performance_summary write
\* nothing: portfolio, holdings_data, current_prices, stock_info,
\* portfolio_history, benchmark_data, metrics and the cache are after the call
\* what they were before it; and a call that returns after an earlier call has
\* returned, on the same day, returns records equal to the earlier ones.
C28_ReportingIsReadOnly ==
    [][ReportingCall =>
           /\ UNCHANGED <<portfolio, holdings_data, current_prices, stock_info,
                          portfolio_history, benchmark_data, metrics, cache>>
           /\ (SnapshotReturned /\ raised' = "none") =>
                  holdings_performance' = holdings_performance]_vars

\* Two calls on demand have returned records, with metrics populated.
C28_Witness ==
    /\ calls = <<"calculate_each_holding_performance", "calculate_each_holding_performance">>
    /\ raised = "none"
    /\ MetricsPopulated
    /\ SnapshotReturned
    /\ DOMAIN holdings_performance[1] # {}


\* No price after the second falls below the greatest of the prices from the
\* second up to the one before it (the curve of compounded returns starts at the
\* second price).
CurveNeverFalls(p) == \A t \in 3..Len(p) : p[t] >= PeakPriceAt(p, t - 1)

\* C29: on every series of two or more strictly positive prices
\* calculate_max_drawdown returns a max_drawdown greater than -1 and not greater
\* than 0, and it is 0 exactly when no price after the start of the curve falls
\* below an earlier running maximum of the curve.
C29_MaxDrawdownRange ==
    (result.op = "calculate_max_drawdown" /\ Len(prices) >= 2) =>
        /\ result.value.raises = "none"
        /\ RLt(R(-1), result.value.max_drawdown)
        /\ ~RLt(R(0), result.value.max_drawdown)
        /\ IsFinite(result.value.max_drawdown)
        /\ result.value.max_drawdown = R(0) <=> CurveNeverFalls(prices)

\* A drawdown of 0 on a series that falls from its first price only, and is
\* non-decreasing from the second price on.
C29_Witness ==
    /\ DrawdownReturned
    /\ Len(prices) = MaxLen
    /\ prices[2] < prices[1]
    /\ prices[3] > prices[2]
    /\ result.value.max_drawdown = R(0)


\* (last date - first date) of a series, in days.
SpanDays(s) == Index(s)[Len(Index(s))] - Index(s)[1]

\* C30: when metrics is populated from non-empty benchmark data,
\* benchmark_return is (1 + R) ** (1 / years) - 1 with R the total return of the
\* benchmark from its first close to its last and years the days between the
\* first and the last date of portfolio_history over 365.25 (not the span of
\* the benchmark's own dates); and alpha is
\* annualized_return - (risk_free_rate + beta * (benchmark_return - risk_free_rate))
\* on the metrics' own annualized_return, beta and benchmark_return.
C30_BenchmarkOverPortfolioSpan ==
    (MetricsPopulated /\ ~NoBenchmark) =>
        LET close == benchmark_data.s
            days == SpanDays(portfolio_history.s)
            rf == Norm(3, 100)
        IN  /\ metrics.benchmark_return # NoneValue
            /\ metrics.alpha # NoneValue
            /\ metrics.beta # NoneValue
            /\ days > 0
            /\ IsFraction(metrics.benchmark_return[1].base, Last(close), First(close))
            /\ IsFraction(metrics.benchmark_return[1].exp, 1461, 4 * days)
            /\ metrics.alpha[1].portfolio_return = metrics.annualized_return
            /\ metrics.alpha[1].market_return = metrics.benchmark_return[1]
            /\ metrics.alpha[1].of_portfolio = R(1)
            /\ metrics.alpha[1].of_market = RNeg(metrics.beta[1])
            /\ metrics.alpha[1].constant = RSub(RMul(metrics.beta[1], rf), rf)

\* The benchmark covers more days than the value series and has gained or lost.
C30_Witness ==
    /\ MetricsPopulated
    /\ ~NoBenchmark
    /\ SpanDays(benchmark_data.s) > SpanDays(portfolio_history.s)
    /\ First(benchmark_data.s) # Last(benchmark_data.s)
    /\ metrics.beta[1] # R(0)

====
